---- MODULE Spec2Model ----
(***************************************************************************)
(* Pitch-extraction and metric-derivation pipeline of the vocal diagnostic *)
(* report: AudioProcessor.load_audio, extract_features and                 *)
(* calculate_metrics (src/src/audio_processor.py), with the voice-part     *)
(* table PASSAGGIO_CRITERIA (src/src/utils.py), and generate_diagnosis and *)
(* analyze_audio (src/app.py) with the TestResult record                   *)
(* (src/src/models.py).                                                    *)
(*                                                                         *)
(* Units.  The source computes in float64; the model computes in fixed     *)
(* point:                                                                  *)
(*   frequencies     milli-hertz          (300 Hz      = 300000)           *)
(*   cents           hundredths of a cent (700 cents   = 70000)            *)
(*   probabilities   percent              (0.3         = 30)               *)
(*   ratios          basis points         (0.7         = 7000)             *)
(* NaN is the frequency -1.  A quotient the source leaves as a float is    *)
(* truncated to the unit (toward zero for cents, floor for the others).    *)
(***************************************************************************)
EXTENDS Integers, Sequences, FiniteSets, TLC

VARIABLES
    y,             \* the waveform under analysis, given by what the trackers return for it
    times,         \* extract_features: frame times (frame indices)
    f0,            \* extract_features: aligned F0 series; then the f0 argument of calculate_metrics
    rms,           \* extract_features: aligned RMS series
    voiced_probs,  \* extract_features: aligned voicing probabilities
    cleaned_f0,    \* extract_features: the copy the octave-jump pass rewrites
    last_valid,    \* extract_features: last accepted pitch, 0 = none
    i,             \* extract_features: loop index (1-based)
    target_note,   \* calculate_metrics argument
    voice_part,    \* calculate_metrics argument
    metrics,       \* calculate_metrics result
    pc,            \* position of the running call (see the actions)
    criteria,      \* utils.PASSAGGIO_CRITERIA, the module-level table
    entry,         \* the function the caller entered
    file,          \* analyze_audio: the recording behind filepath
    again,         \* a caller calling calculate_metrics again: the later result
    result,        \* the TestResult handed to generate_diagnosis
    diagnosis,     \* generate_diagnosis: the list of statements
    raised,        \* exception propagating out of the entry, or "none"
    session_state, \* st.session_state: 'session' and 'current_test_index'
    page,          \* main: what the last script run put on the page
    peer           \* a second analysis running beside this one

vars == <<y, times, f0, rms, voiced_probs, cleaned_f0, last_valid, i,
          target_note, voice_part, metrics, pc,
          criteria, entry, file, again, result, diagnosis, raised,
          session_state, page, peer>>

\* what one analysis never touches: the page's state and the other analysis
otherVars == <<session_state, page, peer>>

\* what the audio core never writes: the table and the caller's side
callerVars == <<criteria, entry, file, again, result, diagnosis, raised, otherVars>>

-----------------------------------------------------------------------------
(* Units and small helpers *)

NaN == 0 - 1
IsNaN(f) == f = NaN
Hz(x) == 1000 * x
Cent(x) == 100 * x
Abs(x) == IF x < 0 THEN 0 - x ELSE x
Min2(a, b) == IF a <= b THEN a ELSE b
Range(s) == {s[k] : k \in 1..Len(s)}
Rep(v, n) == [k \in 1..n |-> v]
\* s[:n] (a slice longer than the array is clipped to it)
Take(s, n) == SubSeq(s, 1, Min2(n, Len(s)))

RECURSIVE SumTo(_, _)
SumTo(s, k) == IF k = 0 THEN 0 ELSE s[k] + SumTo(s, k - 1)
Sum(s) == SumTo(s, Len(s))

\* s[valid_mask], s < x ... : numpy boolean-mask selection, order preserved
RECURSIVE SelectIdx(_, _, _)
SelectIdx(s, keep, k) ==
    IF k = 0 THEN <<>>
    ELSE IF keep[k] THEN Append(SelectIdx(s, keep, k - 1), s[k])
                    ELSE SelectIdx(s, keep, k - 1)
Select(s, keep) == SelectIdx(s, keep, Len(s))

-----------------------------------------------------------------------------
(* 1200 * np.log2(num / den) for integers num, den > 0, in hundredths of a  *)
(* cent, truncated toward zero.  Binary logarithm by repeated squaring of   *)
(* a 28-bit mantissa; every intermediate value fits 32 bits.  The result    *)
(* is within 0.012 cent below the real value in magnitude, and exact for    *)
(* ratios that are powers of two.                                           *)

TwoTo14 == 2^14
TwoTo20 == 2^20
TwoTo28 == 2^28
TwoTo29 == 2^29

\* largest e with den * 2^e <= num (num >= den)
RECURSIVE Log2Int(_, _)
Log2Int(num, den) == IF num >= 2 * den THEN 1 + Log2Int(num, 2 * den) ELSE 0

\* floor(num * 2^28 / den) for den <= num < 2 * den < 2^29, by long division,
\* two bits at a time (LongDiv(1, num - den, den, 14))
RECURSIVE LongDiv(_, _, _, _)
LongDiv(q, r, den, steps) ==
    IF steps = 0 THEN q
    ELSE LongDiv(4 * q + ((4 * r) \div den), (4 * r) % den, den, steps - 1)

\* m * m / 2^28 for a mantissa m in [2^28, 2^29)
MantSquare(m) ==
    LET a == m \div TwoTo14
        b == m % TwoTo14
    IN  a * a + ((2 * a * b) \div TwoTo14) + ((b * b) \div TwoTo28)

\* the first `bits` fractional bits of log2(m / 2^28)
RECURSIVE Log2Frac(_, _, _)
Log2Frac(m, acc, bits) ==
    IF bits = 0 THEN acc
    ELSE LET s == MantSquare(m)
         IN  IF s >= TwoTo29 THEN Log2Frac(s \div 2, 2 * acc + 1, bits - 1)
                             ELSE Log2Frac(s, 2 * acc, bits - 1)

CentsUp(num, den) ==
    LET e    == Log2Int(num, den)
        den2 == den * (2^e)
        frac == Log2Frac(LongDiv(1, num - den2, den2, 14), 0, 20)
        t    == 1200 * frac
    IN  Cent(1200) * e + Cent(t \div TwoTo20) + ((100 * (t % TwoTo20)) \div TwoTo20)

Cents(num, den) ==
    IF num = den THEN 0
    ELSE IF num > den THEN CentsUp(num, den) ELSE 0 - CentsUp(den, num)

-----------------------------------------------------------------------------
(* Configuration tables *)

\* utils.PASSAGGIO_CRITERIA (range_hz and passaggio_hz; desc is display text)
PASSAGGIO_CRITERIA ==
    [Soprano  |-> [range_hz |-> <<Hz(220), Hz(1200)>>, passaggio_hz |-> <<349230, 392000>>],
     Alto     |-> [range_hz |-> <<Hz(174), Hz(700)>>,  passaggio_hz |-> <<329630, 349230>>],
     Tenor    |-> [range_hz |-> <<Hz(130), Hz(523)>>,  passaggio_hz |-> <<349230>>],
     Baritone |-> [range_hz |-> <<Hz(98), Hz(392)>>,   passaggio_hz |-> <<329630>>],
     Bass     |-> [range_hz |-> <<Hz(65), Hz(330)>>,   passaggio_hz |-> <<293660, 311130>>]]

PARTS == <<"Soprano", "Alto", "Tenor", "Baritone", "Bass">>

\* utils.TESTS: id and name of the six tests (no entry has a 'target_note')
TESTS ==
    << [id |-> "T1", name |-> "Sustained Note (Before)"],
       [id |-> "T2", name |-> "Messa di Voce"],
       [id |-> "T3", name |-> "Vowel Transition"],
       [id |-> "T4", name |-> "Scale (Passaggio)"],
       [id |-> "T5", name |-> "Choir Phrase"],
       [id |-> "T6", name |-> "Sustained Note (After)"] >>

\* mutant: an unknown part is given the range of the default part, Soprano
RangeHzSopranoDefault(part) ==
    IF part \in DOMAIN criteria
    THEN criteria[part].range_hz
    ELSE criteria["Soprano"].range_hz

\* PASSAGGIO_CRITERIA.get(voice_part, {}).get("range_hz", [50, 2000])
RangeHz(part) ==
    IF part \in DOMAIN criteria
    THEN criteria[part].range_hz
    ELSE <<Hz(50), Hz(2000)>>

\* PASSAGGIO_CRITERIA.get(voice_part, {}).get("passaggio_hz", [])
PassaggioHzs(part) ==
    IF part \in DOMAIN criteria
    THEN criteria[part].passaggio_hz
    ELSE <<>>

\* passaggio_hzs[0] if passaggio_hzs else 300.0
PrimaryPassaggio(part) ==
    IF PassaggioHzs(part) # <<>> THEN PassaggioHzs(part)[1] ELSE Hz(300)

\* absent target note (None)
NoTarget == "None"

\* librosa.note_to_hz (equal temperament, A4 = 440 Hz), to the milli-hertz
NoteToHz(note) ==
    CASE note = "C4"  -> 261626
      [] note = "Eb4" -> 311127
      [] note = "E4"  -> 329628
      [] note = "F4"  -> 349228
      [] note = "E5"  -> 659255
      [] note = "F5"  -> 698456

\* app.main: target_map.get(part, "C4").split(" ")[0]
TargetMap(part) ==
    CASE part = "Soprano"  -> "F5"
      [] part = "Alto"     -> "E5"
      [] part = "Tenor"    -> "F4"
      [] part = "Baritone" -> "E4"
      [] part = "Bass"     -> "Eb4"
      [] OTHER             -> "C4"

-----------------------------------------------------------------------------
(* Inputs *)

MaxShort == 2      \* longest freely enumerated track, in frames
MaxTail == 2       \* frames after the jump in the octave-jump tracks

\* a voice part the table does not hold
UnknownPart == "Mezzo"
VoiceParts == Range(PARTS) \cup {UnknownPart}
TargetsOf(part) == {NoTarget, TargetMap(part)}

\* one tracker frame: F0 (or NaN) and voicing probability
Fr(f, p) == [f |-> f, p |-> p]
Palette ==
    { Fr(NaN, 0), Fr(Hz(300), 90), Fr(Hz(300), 30), Fr(Hz(600), 90),
      Fr(Hz(330), 90), Fr(Hz(330) + 1, 90), Fr(Hz(220), 90), Fr(349228, 90) }
LongKinds == { Fr(NaN, 0), Fr(Hz(280), 90), Fr(Hz(300), 90), Fr(Hz(360), 90) }
\* segment lengths around the thresholds of calculate_metrics: 7 of 10 frames
\* (voiced_ratio 0.7), 10 and 11 frames (pre-passaggio region), 40 and 41
\* frames (drift windows), 41 of 59 frames (drift with voiced_ratio < 0.7)
SegLens == { <<7, 3>>, <<10, 3>>, <<11, 3>>, <<20, 20>>, <<21, 20>>, <<41, 18>> }

ShortTracks == UNION { [1..n -> Palette] : n \in 1..MaxShort }
JumpTracks ==
    { Rep(Fr(Hz(300), 90), 50) \o <<Fr(Hz(600), 90)>> \o Rep(Fr(Hz(300), 90), k) :
        k \in 1..MaxTail }
LongTracks ==
    { Rep(a, nm[1]) \o Rep(b, nm[2]) \o tl :
        a \in LongKinds, b \in LongKinds, nm \in SegLens,
        tl \in {<<>>, Rep(Fr(Hz(360), 90), 3)} }
\* every part's own target, one octave up
OctaveUpTracks(part) ==
    { Rep(Fr(2 * NoteToHz(TargetMap(part)), 90), n) : n \in {1, 12} }

\* a pitch rising or falling by a fixed step per frame, as a sustained note
\* that creeps sharp or flat; 40 and 41 frames are the two sides of the
\* drift guard
RampLens == {3, 40, 41, 45}
RampSteps == {500, 0 - 500}
RampTracks ==
    { [k \in 1..n |-> Fr(Hz(310) + d * (k - 1), 90)] : n \in RampLens, d \in RampSteps }

\* pitches only the generic range holds (below every part, above every part)
WideTracks ==
    { Rep(Fr(f, 90), n) \o tl :
        f \in {Hz(60), Hz(1500)}, n \in {1, 11}, tl \in {<<>>, Rep(Fr(Hz(300), 90), 2)} }

\* a pitch that moves an octave and stays there, or comes back, with
\* unvoiced frames anywhere: every track of four frames over NaN, 300 Hz
\* and 600 Hz
ShiftTracks == [1..4 -> {Fr(NaN, 0), Fr(Hz(300), 90), Fr(Hz(600), 90)}]

\* the series of the caller that calls twice
TwiceTracks ==
    {<<>>} \cup { Rep(a, 11) \o Rep(b, 3) : a \in LongKinds, b \in LongKinds }
           \cup { t \in RampTracks : Len(t) > 40 }

\* the result objects handed to generate_diagnosis: every metric takes the
\* values on both sides of each threshold of its ladder, and the sentinels
AccuracyGrid == {0, 1999, 2000, 5000, 5001, 20000, 89999, 90000, 99900}
StabilityGrid == {0 - 1, 0, 999, 1000, 3000, 3001, 89999, 90000, 99900}
DriftGrid == {0 - 99900, 0 - 2001, 0 - 2000, 0, 2000, 2001, 99900}
RatioGrid == {0, 5999, 6000, 8499, 8500, 10000}
GivenResults ==
    { [pitch_accuracy_cents |-> a, pitch_stability_cents |-> s,
       pitch_drift_cents |-> d, pitch_on_target_ratio |-> r, tags |-> <<>>] :
        a \in AccuracyGrid, s \in StabilityGrid, d \in DriftGrid, r \in RatioGrid }

F0Of(track) == [k \in 1..Len(track) |-> track[k].f]
ProbsOf(track) == [k \in 1..Len(track) |-> track[k].p]

\* A waveform is represented by what the trackers return for it: librosa.pyin
\* returns f0 and voiced_probs of one common length; librosa.feature.rms
\* frames the signal on its own, so its length is independent (n_rms).
EmptyWave == [empty |-> TRUE, pyin_f0 |-> <<>>, pyin_probs |-> <<>>, n_rms |-> 0]
Wave(track, n) ==
    [empty |-> FALSE, pyin_f0 |-> F0Of(track), pyin_probs |-> ProbsOf(track), n_rms |-> n]
Waves ==
    {EmptyWave}
    \cup UNION { { Wave(t, n) : n \in {k \in 1..(Len(t) + 1) : k >= Len(t) - 1} } :
                   t \in ShortTracks }
    \cup { Wave(t, Len(t)) : t \in JumpTracks }
    \cup { Wave(t, Len(t)) : t \in ShiftTracks }

\* mutant: the earlier variant's defaults, 0.0 for every metric
DefaultMetricsZero ==
    [accuracy |-> 0, stability |-> 0, drift |-> 0,
     overshoot |-> 0, mean_pitch_hz |-> 0, voiced_ratio |-> 0,
     confidence |-> "High", on_target_ratio |-> 0]

\* metrics = {...} at the head of calculate_metrics
DefaultMetrics ==
    [accuracy |-> Cent(999), stability |-> Cent(999), drift |-> Cent(999),
     overshoot |-> 0, mean_pitch_hz |-> 0, voiced_ratio |-> 0,
     confidence |-> "High", on_target_ratio |-> 0]

\* a value not assigned yet (None)
None == [none |-> TRUE]

\* the recording behind a file path: whether librosa.load decodes it, and
\* the waveform it decodes to (a decodable file may hold no sample at all)
NoFile == [path |-> "", decodable |-> FALSE, wave |-> EmptyWave]
CorruptFile == [path |-> "corrupt.wav", decodable |-> FALSE, wave |-> EmptyWave]
Files == {CorruptFile} \cup { [path |-> "take.wav", decodable |-> TRUE, wave |-> w] : w \in Waves }

\* the series a caller of calculate_metrics holds
HeldSeries(t) ==
    /\ f0 = F0Of(t)
    /\ voiced_probs = ProbsOf(t)
    /\ rms = Rep(1, Len(t))
    /\ times = [k \in 1..Len(t) |-> k - 1]

\* analyze_audio: the file is loaded, the waveform goes through
\* extract_features, then calculate_metrics; called with its defaults (no
\* target, "Soprano"), or with a part and the target note the page shows
InitAnalyze ==
    /\ entry = "analyze_audio"
    /\ \E c \in { <<"Soprano", NoTarget>>, <<"Tenor", TargetMap("Tenor")>>,
                   <<UnknownPart, TargetMap(UnknownPart)>> } :
          voice_part = c[1] /\ target_note = c[2]
    /\ file \in Files
    /\ y = EmptyWave
    /\ times = <<>> /\ f0 = <<>> /\ rms = <<>> /\ voiced_probs = <<>>
    /\ result = None
    /\ pc = "load"

\* calculate_metrics called on series the caller holds
InitMetrics ==
    /\ entry = "calculate_metrics"
    /\ voice_part \in VoiceParts
    /\ target_note \in TargetsOf(voice_part)
    /\ file = NoFile
    /\ y = EmptyWave
    /\ \E t \in {<<>>} \cup ShortTracks \cup LongTracks \cup OctaveUpTracks(voice_part)
                \cup RampTracks \cup WideTracks :
          HeldSeries(t)
    /\ result = None
    /\ pc = "extracted"

\* calculate_metrics called twice on the same series, another call between
InitTwice ==
    /\ entry = "calculate_metrics_twice"
    /\ voice_part \in VoiceParts
    /\ target_note \in TargetsOf(voice_part)
    /\ file = NoFile
    /\ y = EmptyWave
    /\ \E t \in TwiceTracks : HeldSeries(t)
    /\ result = None
    /\ pc = "extracted"

\* generate_diagnosis called on a result object the caller built
InitDiagnosis ==
    /\ entry = "generate_diagnosis"
    /\ voice_part = "Soprano"
    /\ target_note = NoTarget
    /\ file = NoFile
    /\ y = EmptyWave
    /\ times = <<>> /\ f0 = <<>> /\ rms = <<>> /\ voiced_probs = <<>>
    /\ result \in GivenResults
    /\ pc = "diagnose"

\* the metrics of calculate_metrics handed on to generate_diagnosis, under
\* the names analyze_audio gives them on the result object
InitDiagnoseMetrics ==
    /\ entry = "diagnose_metrics"
    /\ voice_part \in {"Soprano", "Bass"}
    /\ target_note \in TargetsOf(voice_part)
    /\ file = NoFile
    /\ y = EmptyWave
    /\ \E t \in TwiceTracks \cup RampTracks : HeldSeries(t)
    /\ result = None
    /\ pc = "extracted"

\* the recordings of two analyses that run side by side: every track of
\* three frames over NaN, 300 Hz and 600 Hz for the one, and for the other
\* tracks that share a first frame or two with it and then differ
PairTracks == [1..3 -> {Fr(NaN, 0), Fr(Hz(300), 90), Fr(Hz(600), 90)}]
PeerTracks ==
    { <<Fr(Hz(300), 90), Fr(Hz(300), 90), Fr(Hz(300), 90)>>,
      <<Fr(Hz(300), 90), Fr(Hz(600), 90), Fr(Hz(300), 90)>>,
      <<Fr(Hz(600), 90), Fr(Hz(300), 90), Fr(Hz(600), 90)>>,
      <<Fr(NaN, 0), Fr(Hz(600), 90), Fr(Hz(300), 90)>>,
      <<Fr(Hz(300), 90), Fr(NaN, 0), Fr(Hz(600), 90)>> }

\* the locals of the second analysis, before its extract_features
PeerStart(t, part, target) ==
    [pc |-> "start", pyin_f0 |-> F0Of(t), voiced_probs |-> ProbsOf(t),
     cleaned_f0 |-> <<>>, last_valid |-> 0, i |-> 0, f0 |-> <<>>,
     voice_part |-> part, target_note |-> target,
     metrics |-> DefaultMetrics, diagnosis |-> <<>>]

\* two analyses of different recordings with different configurations,
\* each with its own AudioProcessor, their steps interleaved
InitPair ==
    /\ entry = "pair"
    /\ voice_part = "Soprano"
    /\ target_note = TargetMap("Soprano")
    /\ file = NoFile
    /\ \E t \in PairTracks : y = Wave(t, Len(t))
    /\ times = <<>> /\ f0 = <<>> /\ rms = <<>> /\ voiced_probs = <<>>
    /\ result = None
    /\ pc = "start"
    /\ \E t \in PeerTracks : peer = PeerStart(t, "Bass", NoTarget)
    /\ session_state = None
    /\ page = None

\* the recordings the audio tab is given
TabFiles ==
    {CorruptFile}
    \cup { [path |-> "tmp.wav", decodable |-> TRUE, wave |-> Wave(t, Len(t))] :
             t \in PeerTracks }

\* uuid4 values
SessionIds == 1..3

\* StudentSession(): the dataclass defaults
StudentSession(id) ==
    [id |-> id, part |-> "Soprano", passaggio_info |-> <<>>, results |-> <<>>]

\* the page of app.py in a browser session that has not run the script yet
InitMain ==
    /\ entry = "main"
    /\ voice_part = "Soprano"
    /\ target_note = NoTarget
    /\ file = NoFile
    /\ y = EmptyWave
    /\ times = <<>> /\ f0 = <<>> /\ rms = <<>> /\ voiced_probs = <<>>
    /\ result = None
    /\ pc = "boot"
    /\ session_state = <<>>
    /\ page = None
    /\ peer = None

\* a call outside the page, with no other analysis beside it
Standalone ==
    /\ session_state = None
    /\ page = None
    /\ peer = None

Init ==
    /\ criteria = PASSAGGIO_CRITERIA
    /\ cleaned_f0 = <<>> /\ last_valid = 0 /\ i = 0
    /\ metrics = DefaultMetrics
    /\ again = None
    /\ diagnosis = <<>>
    /\ raised = "none"
    /\ \/ (InitAnalyze \/ InitMetrics \/ InitTwice \/ InitDiagnosis
           \/ InitDiagnoseMetrics) /\ Standalone
       \/ InitPair
       \/ InitMain

-----------------------------------------------------------------------------
(* AudioProcessor.load_audio *)

\* mutant: no try/except, the decoder's exception leaves the call
LoadAudioRaises ==
    /\ pc = "load"
    /\ IF file.decodable
       THEN /\ y' = file.wave
            /\ pc' = (IF entry = "main" THEN "tab_loaded" ELSE "start")
            /\ UNCHANGED raised
       ELSE raised' = "DecodeError" /\ pc' = "raised" /\ UNCHANGED y
    /\ UNCHANGED <<times, f0, rms, voiced_probs, cleaned_f0, last_valid, i,
                   target_note, voice_part, metrics,
                   otherVars, criteria, entry, file, again, result, diagnosis>>

\* y, sr = librosa.load(...), or np.array([]) on any exception; analyze_audio
\* goes on to extract_features, the audio tab of main to calculate_metrics
LoadAudio ==
    /\ pc = "load"
    /\ y' = IF file.decodable THEN file.wave ELSE EmptyWave
    /\ pc' = (IF entry = "main" THEN "tab_loaded" ELSE "start")
    /\ UNCHANGED <<times, f0, rms, voiced_probs, cleaned_f0, last_valid, i,
                   target_note, voice_part, metrics, callerVars>>

-----------------------------------------------------------------------------
(* AudioProcessor.extract_features *)

cents_jump_threshold == 700

\* if len(y) == 0: return four empty arrays
ExtractEmpty ==
    /\ pc = "start"
    /\ y.empty
    /\ times' = <<>> /\ f0' = <<>> /\ rms' = <<>> /\ voiced_probs' = <<>>
    /\ pc' = "extracted"
    /\ UNCHANGED <<y, cleaned_f0, last_valid, i, target_note, voice_part, metrics, callerVars>>

\* mutant: the RMS series is left out of the minimum
MinLenPitchOnly(n_f0, n_rms, n_times) == n_f0

\* min(len(f0), len(rms), len(times))
MinLen(n_f0, n_rms, n_times) == Min2(n_f0, Min2(n_rms, n_times))

\* pyin, rms, times_like, "Align lengths", cleaned_f0 = f0.copy(), last_valid = 0.0
ExtractAlign ==
    /\ pc = "start"
    /\ ~y.empty
    /\ LET raw_rms   == Rep(1, y.n_rms)
           raw_times == [k \in 1..Len(raw_rms) |-> k - 1]
           min_len   == MinLen(Len(y.pyin_f0), Len(raw_rms), Len(raw_times))
       IN  /\ f0' = Take(y.pyin_f0, min_len)
           /\ rms' = Take(raw_rms, min_len)
           /\ times' = Take(raw_times, min_len)
           /\ voiced_probs' = Take(y.pyin_probs, min_len)
           /\ cleaned_f0' = Take(y.pyin_f0, min_len)
    /\ last_valid' = 0
    /\ i' = 1
    /\ pc' = "loop"
    /\ UNCHANGED <<y, target_note, voice_part, metrics, callerVars>>

\* mutant: only a jump upwards is detected (diff > cents_jump_threshold)
IsJumpUpOnly(f, last) == Cents(f, last) > Cent(cents_jump_threshold)

\* abs(diff) > cents_jump_threshold, diff = 1200 * np.log2(cleaned_f0[i] / last_valid)
IsJump(f, last) == Abs(Cents(f, last)) > Cent(cents_jump_threshold)

\* mutant: a rejected frame still becomes the reference pitch
OctaveStepReseeds ==
    /\ pc = "loop"
    /\ i <= Len(cleaned_f0)
    /\ IF IsNaN(cleaned_f0[i])
       THEN UNCHANGED <<cleaned_f0, last_valid>>
       ELSE /\ last_valid' = cleaned_f0[i]
            /\ IF last_valid > 0 /\ IsJump(cleaned_f0[i], last_valid)
               THEN cleaned_f0' = [cleaned_f0 EXCEPT ![i] = NaN]
               ELSE UNCHANGED cleaned_f0
    /\ i' = i + 1
    /\ UNCHANGED <<y, times, f0, rms, voiced_probs, target_note, voice_part, metrics, pc, callerVars>>

\* mutant: a rejection clears the reference pitch (last_valid = 0.0), so the
\* next voiced frame seeds it again
OctaveStepResetsOnReject ==
    /\ pc = "loop"
    /\ i <= Len(cleaned_f0)
    /\ IF IsNaN(cleaned_f0[i])
       THEN UNCHANGED <<cleaned_f0, last_valid>>
       ELSE IF last_valid > 0 /\ IsJump(cleaned_f0[i], last_valid)
            THEN /\ cleaned_f0' = [cleaned_f0 EXCEPT ![i] = NaN]
                 /\ last_valid' = 0
            ELSE /\ last_valid' = cleaned_f0[i]
                 /\ UNCHANGED cleaned_f0
    /\ i' = i + 1
    /\ UNCHANGED <<y, times, f0, rms, voiced_probs, target_note, voice_part, metrics, pc, callerVars>>

\* mutant: a rejection also takes back the frame before it
OctaveStepRevisesPrevious ==
    /\ pc = "loop"
    /\ i <= Len(cleaned_f0)
    /\ IF IsNaN(cleaned_f0[i])
       THEN UNCHANGED <<cleaned_f0, last_valid>>
       ELSE IF last_valid > 0 /\ IsJump(cleaned_f0[i], last_valid)
            THEN /\ cleaned_f0' = [k \in 1..Len(cleaned_f0) |->
                                     IF k = i \/ k = i - 1 THEN NaN ELSE cleaned_f0[k]]
                 /\ UNCHANGED last_valid
            ELSE /\ last_valid' = cleaned_f0[i]
                 /\ UNCHANGED cleaned_f0
    /\ i' = i + 1
    /\ UNCHANGED <<y, times, f0, rms, voiced_probs, target_note, voice_part, metrics, pc, callerVars>>

\* one iteration of "for i in range(len(cleaned_f0))"
OctaveStep ==
    /\ pc = "loop"
    /\ i <= Len(cleaned_f0)
    /\ IF IsNaN(cleaned_f0[i])
       THEN UNCHANGED <<cleaned_f0, last_valid>>
       ELSE IF last_valid > 0 /\ IsJump(cleaned_f0[i], last_valid)
            THEN /\ cleaned_f0' = [cleaned_f0 EXCEPT ![i] = NaN]
                 /\ UNCHANGED last_valid
            ELSE /\ last_valid' = cleaned_f0[i]
                 /\ UNCHANGED cleaned_f0
    /\ i' = i + 1
    /\ UNCHANGED <<y, times, f0, rms, voiced_probs, target_note, voice_part, metrics, pc, callerVars>>

\* return times, cleaned_f0, rms, voiced_probs
ExtractReturn ==
    /\ pc = "loop"
    /\ i > Len(cleaned_f0)
    /\ f0' = cleaned_f0
    /\ pc' = "extracted"
    /\ UNCHANGED <<y, times, rms, voiced_probs, cleaned_f0, last_valid, i,
                   target_note, voice_part, metrics, callerVars>>

-----------------------------------------------------------------------------
(* AudioProcessor.calculate_metrics *)

confidence_threshold == 30
window == 20

\* mutant: the upper end of range_hz is excluded
ValidMaskOpenTop(f0s, probs, part) ==
    [k \in 1..Len(f0s) |->
        /\ ~IsNaN(f0s[k])
        /\ probs[k] > confidence_threshold
        /\ f0s[k] >= RangeHz(part)[1]
        /\ f0s[k] < RangeHz(part)[2]]

\* valid_mask: not NaN, confidence above the threshold, within range_hz
ValidMask(f0s, probs, part) ==
    LET min_hz == RangeHz(part)[1]
        max_hz == RangeHz(part)[2]
    IN  [k \in 1..Len(f0s) |->
            /\ ~IsNaN(f0s[k])
            /\ probs[k] > confidence_threshold
            /\ f0s[k] >= min_hz
            /\ f0s[k] <= max_hz]

\* voiced_f0 = f0[valid_mask]
VoicedF0(f0s, probs, part) == Select(f0s, ValidMask(f0s, probs, part))

\* len(voiced_f0) / total_frames when total_frames > 0, else the default 0.0
VoicedRatio(n_voiced, total_frames) ==
    IF total_frames > 0 THEN (10000 * n_voiced) \div total_frames ELSE 0

\* mutant: a voiced ratio of exactly 0.7 is labelled "Low" too
ConfidenceLabelInclusive(voiced_ratio) == IF voiced_ratio <= 7000 THEN "Low" ELSE "High"

\* if metrics["voiced_ratio"] < 0.7: "Low"
ConfidenceLabel(voiced_ratio) == IF voiced_ratio < 7000 THEN "Low" ELSE "High"

\* float(np.mean(voiced_f0))
MeanHz(v) == Sum(v) \div Len(v)

\* mutant: the error keeps its sign, so every flat frame counts as on target
MinCentsErrorSigned(v, target_hz) ==
    LET err == [x \in Range(v) |-> Cents(x, target_hz)]
    IN  [k \in 1..Len(v) |-> err[v[k]]]

\* min_cents_error = np.abs(1200 * np.log2(voiced_f0 / target_hz)), per frame
\* (the logarithm is evaluated once per distinct frequency)
MinCentsError(v, target_hz) ==
    LET err == [x \in Range(v) |-> Abs(Cents(x, target_hz))]
    IN  [k \in 1..Len(v) |-> err[v[k]]]

\* mutant: the mean error is not clamped
AccuracyUnclamped(min_cents_error) == Sum(min_cents_error) \div Len(min_cents_error)

\* mutant: the earlier variant, each error folded to the nearest octave of the target
AccuracyOctaveFolded(min_cents_error) ==
    LET folded == [k \in 1..Len(min_cents_error) |->
                     Min2(min_cents_error[k] % Cent(1200),
                          Cent(1200) - (min_cents_error[k] % Cent(1200)))]
    IN  Min2(Cent(200), Sum(folded) \div Len(folded))

\* min(200.0, float(np.mean(min_cents_error)))
Accuracy(min_cents_error) ==
    Min2(Cent(200), Sum(min_cents_error) \div Len(min_cents_error))

\* float(np.mean(min_cents_error <= 50.0))
OnTargetRatio(min_cents_error) ==
    LET on_target_mask == [k \in 1..Len(min_cents_error) |-> min_cents_error[k] <= Cent(50)]
    IN  (10000 * Len(Select(min_cents_error, on_target_mask))) \div Len(min_cents_error)

\* largest r with r * r <= n
RECURSIVE IsqrtIn(_, _, _)
IsqrtIn(n, lo, hi) ==
    IF lo >= hi THEN lo
    ELSE LET mid == (lo + hi + 1) \div 2
         IN  IF mid * mid <= n THEN IsqrtIn(n, mid, hi) ELSE IsqrtIn(n, lo, mid - 1)
Isqrt(n) == IsqrtIn(n, 0, 32767)

\* np.std(d) of deviations in hundredths of a cent: the deviations from their
\* mean are rounded to whole cents, the result is in tenths of a cent
Std(d) ==
    LET n  == Len(d)
        mu == Sum(d) \div n
        sq == [k \in 1..n |-> LET e == (d[k] - mu + 50) \div 100 IN e * e]
    IN  10 * Isqrt(100 * (Sum(sq) \div n))

\* ref = np.mean(s); np.std(1200 * np.log2(s / ref))
StdCents(s) ==
    LET n   == Len(s)
        tot == Sum(s)
        dev == [x \in Range(s) |-> Cents(x * n, tot)]
    IN  Std([k \in 1..n |-> dev[s[k]]])

\* mutant: a pre-passaggio region of exactly 10 frames is used
StabilityRegionFrom10(v, part) ==
    LET pre_mask == [k \in 1..Len(v) |-> v[k] < PrimaryPassaggio(part)]
        pre_f0   == Select(v, pre_mask)
    IN  IF Len(pre_f0) >= 10 THEN pre_f0 ELSE v

\* pre_f0 if len(pre_f0) > 10 else voiced_f0
StabilityRegion(v, part) ==
    LET pre_mask == [k \in 1..Len(v) |-> v[k] < PrimaryPassaggio(part)]
        pre_f0   == Select(v, pre_mask)
    IN  IF Len(pre_f0) > 10 THEN pre_f0 ELSE v

\* mutant: no whole-clip fallback, a short pre-passaggio region leaves the default
StabilityPreOnly(v, part) ==
    LET pre_f0 == Select(v, [k \in 1..Len(v) |-> v[k] < PrimaryPassaggio(part)])
    IN  IF Len(pre_f0) > 10 THEN StdCents(pre_f0) ELSE DefaultMetrics.stability

\* metrics["stability"] = float(np.std(cents_dev)), in either branch
Stability(v, part) == StdCents(StabilityRegion(v, part))

\* k-th smallest element of s
Kth(s, k) ==
    CHOOSE x \in Range(s) :
        /\ Cardinality({j \in 1..Len(s) : s[j] < x}) < k
        /\ Cardinality({j \in 1..Len(s) : s[j] <= x}) >= k

\* twice np.median(s)
Median2(s) ==
    LET n == Len(s)
    IN  IF n % 2 = 0 THEN Kth(s, n \div 2) + Kth(s, (n \div 2) + 1)
                     ELSE 2 * Kth(s, (n + 1) \div 2)

\* mutant: two full windows are enough, 40 frames included
DriftFrom40(v) ==
    IF Len(v) >= window * 2
    THEN Cents(Median2(SubSeq(v, Len(v) - window + 1, Len(v))),
               Median2(SubSeq(v, 1, window)))
    ELSE DefaultMetrics.drift

\* mutant: the quotient upside down, start over end
DriftStartOverEnd(v) ==
    IF Len(v) > window * 2
    THEN Cents(Median2(SubSeq(v, 1, window)),
               Median2(SubSeq(v, Len(v) - window + 1, Len(v))))
    ELSE DefaultMetrics.drift

\* 1200 * np.log2(end_pitch / start_pitch) over the first and last `window`
\* frames when len(voiced_f0) > window * 2, else the default
Drift(v) ==
    IF Len(v) > window * 2
    THEN LET start_pitch2 == Median2(SubSeq(v, 1, window))
             end_pitch2   == Median2(SubSeq(v, Len(v) - window + 1, Len(v)))
         IN  IF start_pitch2 > 0 /\ end_pitch2 > 0
             THEN Cents(end_pitch2, start_pitch2)
             ELSE DefaultMetrics.drift
    ELSE DefaultMetrics.drift

\* mutant: without a target note the call returns before stability and drift
calculate_metrics_target_first(f0s, rmss, probs, target, part) ==
    LET voiced_f0    == VoicedF0(f0s, probs, part)
        voiced_ratio == VoicedRatio(Len(voiced_f0), Len(f0s))
        m1 == [DefaultMetrics EXCEPT !.voiced_ratio = voiced_ratio]
    IN  IF Len(voiced_f0) = 0
        THEN [m1 EXCEPT !.confidence = "Low"]
        ELSE LET m2 == [m1 EXCEPT !.confidence = ConfidenceLabel(voiced_ratio),
                                  !.mean_pitch_hz = MeanHz(voiced_f0)]
             IN  IF target = NoTarget THEN m2
                 ELSE [m2 EXCEPT
                         !.accuracy = Accuracy(MinCentsError(voiced_f0, NoteToHz(target))),
                         !.on_target_ratio =
                            OnTargetRatio(MinCentsError(voiced_f0, NoteToHz(target))),
                         !.stability = Stability(voiced_f0, part),
                         !.drift = Drift(voiced_f0)]

calculate_metrics(f0s, rmss, probs, target, part) ==
    LET voiced_f0    == VoicedF0(f0s, probs, part)
        voiced_ratio == VoicedRatio(Len(voiced_f0), Len(f0s))
        m1 == [DefaultMetrics EXCEPT !.voiced_ratio = voiced_ratio]
    IN  IF Len(voiced_f0) = 0
        THEN [m1 EXCEPT !.confidence = "Low"]
        ELSE LET m2 == [m1 EXCEPT !.confidence = ConfidenceLabel(voiced_ratio),
                                  !.mean_pitch_hz = MeanHz(voiced_f0)]
                 m3 == IF target # NoTarget
                       THEN LET target_hz       == NoteToHz(target)
                                min_cents_error == MinCentsError(voiced_f0, target_hz)
                            IN  [m2 EXCEPT
                                   !.accuracy = Accuracy(min_cents_error),
                                   !.on_target_ratio = OnTargetRatio(min_cents_error)]
                       ELSE [m2 EXCEPT !.on_target_ratio = 0]
             IN  [m3 EXCEPT !.stability = Stability(voiced_f0, part),
                            !.drift = Drift(voiced_f0)]

\* mutant: the invalid frames are blanked in the caller's array (f0[~valid_mask] = np.nan)
CalculateMetricsInPlace ==
    /\ pc = "extracted"
    /\ metrics' = calculate_metrics(f0, rms, voiced_probs, target_note, voice_part)
    /\ f0' = [k \in 1..Len(f0) |->
                IF ValidMask(f0, voiced_probs, voice_part)[k] THEN f0[k] ELSE NaN]
    /\ pc' = "done"
    /\ UNCHANGED <<y, times, rms, voiced_probs, cleaned_f0, last_valid, i,
                   target_note, voice_part, callerVars>>

\* metrics = processor.calculate_metrics(f0, rms, voiced_probs, target_note, voice_part)
CalculateMetrics ==
    /\ pc = "extracted"
    /\ metrics' = calculate_metrics(f0, rms, voiced_probs, target_note, voice_part)
    /\ pc' = "done"
    /\ UNCHANGED <<y, times, f0, rms, voiced_probs, cleaned_f0, last_valid, i,
                   target_note, voice_part, callerVars>>

-----------------------------------------------------------------------------
(* A caller that holds the series and calls calculate_metrics again *)

\* another call on the same processor and series, for another part with the
\* other target of the caller's part
CallOther ==
    /\ pc = "done"
    /\ entry = "calculate_metrics_twice"
    /\ \E t \in TargetsOf(voice_part) \ {target_note},
          part \in {"Bass", UnknownPart} \ {voice_part} :
          again' = calculate_metrics(f0, rms, voiced_probs, t, part)
    /\ pc' = "between"
    /\ UNCHANGED <<y, times, f0, rms, voiced_probs, cleaned_f0, last_valid, i,
                   target_note, voice_part, metrics,
                   otherVars, criteria, entry, file, result, diagnosis, raised>>

\* the second call with the arguments of the first
CallAgain ==
    /\ pc \in {"done", "between"}
    /\ entry = "calculate_metrics_twice"
    /\ again' = calculate_metrics(f0, rms, voiced_probs, target_note, voice_part)
    /\ pc' = "again"
    /\ UNCHANGED <<y, times, f0, rms, voiced_probs, cleaned_f0, last_valid, i,
                   target_note, voice_part, metrics,
                   otherVars, criteria, entry, file, result, diagnosis, raised>>

-----------------------------------------------------------------------------
(* analyze_audio, after calculate_metrics *)

\* the fields of the TestResult dataclass
TestResultFields ==
    { "test_id", "test_name", "audio_file_path", "video_file_path",
      "pitch_track_time", "pitch_track_hz", "energy_track_time", "energy_track_rms",
      "pitch_accuracy_cents", "pitch_stability_cents", "pitch_drift_cents",
      "attack_overshoot_score", "tags", "processed_at" }

\* the keyword arguments analyze_audio gives the TestResult constructor
AnalyzeKeywords ==
    { "test_id", "test_name", "audio_file_path",
      "pitch_track_time", "pitch_track_hz", "energy_track_time", "energy_track_rms",
      "pitch_accuracy_cents", "pitch_stability_cents", "pitch_drift_cents",
      "pitch_on_target_ratio", "attack_overshoot_score", "processed_at" }

\* result = TestResult(...): the generated __init__ raises TypeError on a
\* keyword that is no field.  (The T6 comparison before it reads the
\* session and at most displays a warning.)
BuildResult ==
    /\ pc = "done"
    /\ entry = "analyze_audio"
    /\ IF AnalyzeKeywords \subseteq TestResultFields
       THEN /\ result' = [pitch_accuracy_cents  |-> metrics.accuracy,
                          pitch_stability_cents |-> metrics.stability,
                          pitch_drift_cents     |-> metrics.drift,
                          pitch_on_target_ratio |-> metrics.on_target_ratio,
                          tags                  |-> <<>>]
            /\ pc' = "diagnose"
            /\ UNCHANGED raised
       ELSE /\ raised' = "TypeError"
            /\ pc' = "raised"
            /\ UNCHANGED result
    /\ UNCHANGED <<y, times, f0, rms, voiced_probs, cleaned_f0, last_valid, i,
                   target_note, voice_part, metrics,
                   otherVars, criteria, entry, file, again, diagnosis>>

\* the four metrics under the names analyze_audio gives them on the result
ResultOf(m) ==
    [pitch_accuracy_cents  |-> m.accuracy,
     pitch_stability_cents |-> m.stability,
     pitch_drift_cents     |-> m.drift,
     pitch_on_target_ratio |-> m.on_target_ratio,
     tags                  |-> <<>>]

\* calculate_metrics composed with generate_diagnosis: the metrics reach the
\* ladders as the result's four pitch fields
DiagnoseMetrics ==
    /\ pc = "done"
    /\ entry \in {"diagnose_metrics", "pair"}
    /\ result' = ResultOf(metrics)
    /\ pc' = "diagnose"
    /\ UNCHANGED <<y, times, f0, rms, voiced_probs, cleaned_f0, last_valid, i,
                   target_note, voice_part, metrics,
                   otherVars, criteria, entry, file, again, diagnosis, raised>>

-----------------------------------------------------------------------------
(* generate_diagnosis.  A statement is modelled by its class; the text of   *)
(* the "deviation" class also quotes the accuracy to one decimal.  The      *)
(* thresholds are in the units of the metrics (90000 = 900.0 cents,         *)
(* 6000 = 0.6).                                                             *)

\* mutant: the accuracy rungs as independent ifs
AccuracyLadderIfs(r) ==
    (IF r.pitch_accuracy_cents >= 90000 THEN <<"failed">> ELSE <<>>)
    \o (IF r.pitch_accuracy_cents > 5000 THEN <<"deviation">> ELSE <<>>)
    \o (IF r.pitch_accuracy_cents < 2000 THEN <<"excellent">> ELSE <<>>)

\* mutant: the failure rung starts at the 200 cents the accuracy is clamped to
AccuracyLadderFailsAtClamp(r) ==
    IF r.pitch_accuracy_cents >= 20000 THEN <<"failed">>
    ELSE IF r.pitch_accuracy_cents > 5000 THEN <<"deviation">>
    ELSE IF r.pitch_accuracy_cents < 2000 THEN <<"excellent">>
    ELSE <<>>

\* "# Accuracy": if >= 900.0 / elif > 50 / elif < 20
AccuracyLadder(r) ==
    IF r.pitch_accuracy_cents >= 90000 THEN <<"failed">>
    ELSE IF r.pitch_accuracy_cents > 5000 THEN <<"deviation">>
    ELSE IF r.pitch_accuracy_cents < 2000 THEN <<"excellent">>
    ELSE <<>>

\* mutant: the wobble rung starts at 30 cents itself
StabilityLadderInclusive(r) ==
    IF r.pitch_stability_cents >= 90000 THEN <<>>
    ELSE IF r.pitch_stability_cents >= 3000 THEN <<"wobble">>
    ELSE IF r.pitch_stability_cents < 1000 /\ r.pitch_stability_cents >= 0
         THEN <<"very_stable">>
    ELSE <<>>

\* "# Stability": if >= 900.0: pass / elif > 30 / elif < 10 and >= 0
StabilityLadder(r) ==
    IF r.pitch_stability_cents >= 90000 THEN <<>>
    ELSE IF r.pitch_stability_cents > 3000 THEN <<"wobble">>
    ELSE IF r.pitch_stability_cents < 1000 /\ r.pitch_stability_cents >= 0
         THEN <<"very_stable">>
    ELSE <<>>

\* "# Drift": if < -20 / elif > 20
DriftLadder(r) ==
    IF r.pitch_drift_cents < 0 - 2000 THEN <<"flat_drift">>
    ELSE IF r.pitch_drift_cents > 2000 THEN <<"sharp_drift">>
    ELSE <<>>

\* "# New Strict Check: On-Target Ratio": if < 0.6 / elif < 0.85
OnTargetLadder(r) ==
    IF r.pitch_on_target_ratio < 6000 THEN <<"off_target">>
    ELSE IF r.pitch_on_target_ratio < 8500 THEN <<"wander">>
    ELSE <<>>

\* mutant: no generic statement for a silent diagnosis
FallbackMissing(d) == d

\* if not diagnosis: diagnosis.append(the generic statement)
Fallback(d) == IF d = <<>> THEN <<"stable">> ELSE d

\* one ladder of generate_diagnosis: append what it emits, go on to the next
Ladder(from, emitted, to) ==
    /\ pc = from
    /\ diagnosis' = diagnosis \o emitted
    /\ pc' = to
    /\ UNCHANGED <<y, times, f0, rms, voiced_probs, cleaned_f0, last_valid, i,
                   target_note, voice_part, metrics,
                   otherVars, criteria, entry, file, again, result, raised>>

\* diagnosis = [] and the accuracy ladder
DiagnoseAccuracy == Ladder("diagnose", AccuracyLadder(result), "stability")
DiagnoseStability == Ladder("stability", StabilityLadder(result), "drift")
DiagnoseDrift == Ladder("drift", DriftLadder(result), "on_target")
DiagnoseOnTarget == Ladder("on_target", OnTargetLadder(result), "fallback")

DiagnoseFallback ==
    /\ pc = "fallback"
    /\ diagnosis' = Fallback(diagnosis)
    /\ pc' = "join"
    /\ UNCHANGED <<y, times, f0, rms, voiced_probs, cleaned_f0, last_valid, i,
                   target_note, voice_part, metrics,
                   otherVars, criteria, entry, file, again, result, raised>>

\* return " ".join(diagnosis): the statements in list order; in
\* analyze_audio the text is attached to the result as its Diagnosis tag and
\* the result is returned
DiagnosisReturn ==
    /\ pc = "join"
    /\ IF entry = "analyze_audio"
       THEN /\ result' = [result EXCEPT !.tags =
                            Append(@, [tag_type |-> "Diagnosis", description |-> diagnosis])]
            /\ pc' = "returned"
       ELSE /\ UNCHANGED result
            /\ pc' = "diagnosed"
    /\ UNCHANGED <<y, times, f0, rms, voiced_probs, cleaned_f0, last_valid, i,
                   target_note, voice_part, metrics,
                   otherVars, criteria, entry, file, again, diagnosis, raised>>

-----------------------------------------------------------------------------
(* a second analysis beside the first: the same functions on its own locals *)

\* the body of the octave-jump loop on a call's own cleaned_f0 and last_valid
OctaveBody(c, last, k) ==
    IF IsNaN(c[k]) THEN <<c, last>>
    ELSE IF last > 0 /\ IsJump(c[k], last) THEN <<[c EXCEPT ![k] = NaN], last>>
    ELSE <<c, c[k]>>

\* generate_diagnosis as a whole: the four ladders and the generic statement
generate_diagnosis(r) ==
    Fallback(AccuracyLadder(r) \o StabilityLadder(r) \o DriftLadder(r) \o OnTargetLadder(r))

\* mutant: the reference pitch is kept on a processor both analyses use
\* (self.last_valid), not in a local
PeerStepSharedLastValid ==
    /\ peer # None
    /\ peer.pc # "diagnosed"
    /\ IF peer.pc = "loop" /\ peer.i <= Len(peer.cleaned_f0)
       THEN LET b == OctaveBody(peer.cleaned_f0, last_valid, peer.i)
            IN  /\ peer' = [peer EXCEPT !.cleaned_f0 = b[1], !.i = @ + 1]
                /\ last_valid' = b[2]
       ELSE /\ UNCHANGED last_valid
            /\ peer' =
                 CASE peer.pc = "start" ->
                        [peer EXCEPT !.cleaned_f0 = peer.pyin_f0, !.i = 1, !.pc = "loop"]
                   [] peer.pc = "loop" ->
                        [peer EXCEPT !.f0 = peer.cleaned_f0, !.pc = "extracted"]
                   [] peer.pc = "extracted" ->
                        [peer EXCEPT !.metrics =
                                        calculate_metrics(peer.f0, Rep(1, Len(peer.f0)),
                                                          peer.voiced_probs,
                                                          peer.target_note, peer.voice_part),
                                     !.pc = "done"]
                   [] peer.pc = "done" ->
                        [peer EXCEPT !.diagnosis = generate_diagnosis(ResultOf(peer.metrics)),
                                     !.pc = "diagnosed"]
    /\ UNCHANGED <<y, times, f0, rms, voiced_probs, cleaned_f0, i,
                   target_note, voice_part, metrics, pc,
                   criteria, entry, file, again, result, diagnosis, raised,
                   session_state, page>>

\* one step of the second analysis: extract_features (copy, one loop
\* iteration, return), calculate_metrics, generate_diagnosis; it reads and
\* writes its own locals, and reads the module's PASSAGGIO_CRITERIA
PeerStep ==
    /\ peer # None
    /\ peer.pc # "diagnosed"
    /\ peer' =
         CASE peer.pc = "start" ->
                [peer EXCEPT !.cleaned_f0 = peer.pyin_f0, !.last_valid = 0,
                             !.i = 1, !.pc = "loop"]
           [] peer.pc = "loop" /\ peer.i <= Len(peer.cleaned_f0) ->
                LET b == OctaveBody(peer.cleaned_f0, peer.last_valid, peer.i)
                IN  [peer EXCEPT !.cleaned_f0 = b[1], !.last_valid = b[2], !.i = @ + 1]
           [] peer.pc = "loop" /\ peer.i > Len(peer.cleaned_f0) ->
                [peer EXCEPT !.f0 = peer.cleaned_f0, !.pc = "extracted"]
           [] peer.pc = "extracted" ->
                [peer EXCEPT !.metrics =
                                calculate_metrics(peer.f0, Rep(1, Len(peer.f0)),
                                                  peer.voiced_probs,
                                                  peer.target_note, peer.voice_part),
                             !.pc = "done"]
           [] peer.pc = "done" ->
                [peer EXCEPT !.diagnosis = generate_diagnosis(ResultOf(peer.metrics)),
                             !.pc = "diagnosed"]
    /\ UNCHANGED <<y, times, f0, rms, voiced_probs, cleaned_f0, last_valid, i,
                   target_note, voice_part, metrics, pc,
                   criteria, entry, file, again, result, diagnosis, raised,
                   session_state, page>>

-----------------------------------------------------------------------------
(* app.py as a Streamlit script: one run of the script per interaction.  A  *)
(* run that raises stops there; what it put on the page before stays.      *)

\* "if 'session' not in st.session_state" / "if 'current_test_index' not in"
SessionStateInit(ss, id) ==
    IF ss = <<>>
    THEN [session |-> StudentSession(id), current_test_index |-> 0]
    ELSE ss

\* the sidebar: the part of the selectbox and its passaggio_info
Sidebar(ss, part) ==
    [ss EXCEPT !.session.part = part,
               !.session.passaggio_info = criteria[part]]

\* the main area of a run in which no button is clicked and no recording is
\* in the audio input: "test" is bound only if current_index < len(tests),
\* the audio tab reads test['description'] in any case; the "Next Test"
\* button comes last, and its else branch is the completion screen
MainArea(ss) ==
    LET current_index == ss.current_test_index
    IN  IF current_index < Len(TESTS)
        THEN [test |-> TESTS[current_index + 1], error |-> "none",
              audio_input |-> TRUE, next_button |-> TRUE, completion |-> TRUE]
        ELSE [test |-> None, error |-> "UnboundLocalError",
              audio_input |-> FALSE, next_button |-> FALSE, completion |-> FALSE]

\* the first run of the script in a browser session
FirstRun ==
    /\ entry = "main" /\ pc = "boot"
    /\ \E id \in SessionIds :
          session_state' = Sidebar(SessionStateInit(session_state, id), "Soprano")
    /\ page' = MainArea(session_state')
    /\ raised' = page'.error
    /\ pc' = "idle"
    /\ UNCHANGED <<y, times, f0, rms, voiced_probs, cleaned_f0, last_valid, i,
                   target_note, voice_part, metrics,
                   criteria, entry, file, again, result, diagnosis, peer>>

\* the run after another part is chosen in the sidebar
SelectPart ==
    /\ entry = "main" /\ pc = "idle"
    /\ \E part \in Range(PARTS) \ {session_state.session.part} :
          session_state' = Sidebar(session_state, part)
    /\ page' = MainArea(session_state')
    /\ raised' = page'.error
    /\ UNCHANGED <<y, times, f0, rms, voiced_probs, cleaned_f0, last_valid, i,
                   target_note, voice_part, metrics, pc,
                   criteria, entry, file, again, result, diagnosis, peer>>

\* "Reset Session" is clicked: a new StudentSession, index 0, st.rerun(), and
\* the run that follows
ResetSession ==
    /\ entry = "main" /\ pc = "idle"
    /\ \E id \in SessionIds \ {session_state.session.id} :
          session_state' =
              Sidebar([session |-> StudentSession(id), current_test_index |-> 0],
                      "Soprano")
    /\ page' = MainArea(session_state')
    /\ raised' = page'.error
    /\ UNCHANGED <<y, times, f0, rms, voiced_probs, cleaned_f0, last_valid, i,
                   target_note, voice_part, metrics, pc,
                   criteria, entry, file, again, result, diagnosis, peer>>

\* "Next Test ->" is clicked on a page that shows it:
\* st.session_state['current_test_index'] += 1, st.rerun(), and the run
\* that follows
NextTest ==
    /\ entry = "main" /\ pc = "idle"
    /\ page.next_button
    /\ session_state' =
          [session_state EXCEPT !.current_test_index = @ + 1]
    /\ page' = MainArea(session_state')
    /\ raised' = page'.error
    /\ UNCHANGED <<y, times, f0, rms, voiced_probs, cleaned_f0, last_valid, i,
                   target_note, voice_part, metrics, pc,
                   criteria, entry, file, again, result, diagnosis, peer>>

\* a recording is made in the audio input of the page: the run gets to
\* "if audio_value:", writes the temporary file and calls load_audio
RecordAudio ==
    /\ entry = "main" /\ pc = "idle"
    /\ page.audio_input
    /\ file' \in TabFiles
    /\ y' = EmptyWave
    /\ page' = [page EXCEPT !.next_button = FALSE, !.completion = FALSE]
    /\ raised' = "none"
    /\ pc' = "load"
    /\ UNCHANGED <<times, f0, rms, voiced_probs, cleaned_f0, last_valid, i,
                   target_note, voice_part, metrics,
                   criteria, entry, again, result, diagnosis, session_state, peer>>

\* the parameters of calculate_metrics that have no default
CalculateMetricsRequired == {"f0", "rms", "voiced_probs"}

\* processor.calculate_metrics(y, sr, target_note=test.get('target_note')):
\* the parameters the call of the audio tab binds
TabArguments == {"f0", "rms", "target_note"}

\* the call of calculate_metrics in the audio tab: voiced_probs is not
\* bound, the call raises TypeError before the body runs and the run stops
\* before generate_diagnosis, add_result and the "Next Test" button
TabCalculateMetrics ==
    /\ entry = "main" /\ pc = "tab_loaded"
    /\ ~(CalculateMetricsRequired \subseteq TabArguments)
    /\ raised' = "TypeError"
    /\ page' = [page EXCEPT !.error = "TypeError"]
    /\ pc' = "idle"
    /\ UNCHANGED <<y, times, f0, rms, voiced_probs, cleaned_f0, last_valid, i,
                   target_note, voice_part, metrics,
                   criteria, entry, file, again, result, diagnosis, session_state, peer>>

-----------------------------------------------------------------------------

Next ==
    \/ DiagnoseMetrics
    \/ PeerStep
    \/ FirstRun \/ SelectPart \/ ResetSession \/ NextTest
    \/ RecordAudio \/ TabCalculateMetrics
    \/ LoadAudio \/ ExtractEmpty \/ ExtractAlign \/ OctaveStep \/ ExtractReturn
    \/ CalculateMetrics
    \/ CallOther \/ CallAgain
    \/ BuildResult
    \/ DiagnoseAccuracy \/ DiagnoseStability \/ DiagnoseDrift \/ DiagnoseOnTarget
    \/ DiagnoseFallback \/ DiagnosisReturn

Spec == Init /\ [][Next]_vars

-----------------------------------------------------------------------------
(* Properties.  The frame validity rule and the frames it selects are       *)
(* restated here from the design (section 4.2), apart from ValidMask.       *)

\* frame k of the series given to calculate_metrics is usable
Passes(k) ==
    /\ f0[k] # NaN
    /\ voiced_probs[k] > 30
    /\ RangeHz(voice_part)[1] <= f0[k]
    /\ f0[k] <= RangeHz(voice_part)[2]

PassIdx == {k \in 1..Len(f0) : Passes(k)}
NPass == Cardinality(PassIdx)

\* the usable frames, in time order
RECURSIVE PassFrom(_)
PassFrom(k) ==
    IF k > Len(f0) THEN <<>>
    ELSE IF Passes(k) THEN <<f0[k]>> \o PassFrom(k + 1) ELSE PassFrom(k + 1)
PassSeq == PassFrom(1)

Done == pc = "done"

\* C1: when no frame passes the validity filter (all NaN, or confidence at
\* most 0.3, or out of range, or no frame at all), calculate_metrics returns
\* accuracy, stability and drift 999.0, on_target_ratio 0.0 and confidence
\* "Low", whatever the target note and the voice part.
C1_NoValidFrameSentinels ==
    (Done /\ PassIdx = {}) =>
        /\ metrics.accuracy = 99900
        /\ metrics.stability = 99900
        /\ metrics.drift = 99900
        /\ metrics.on_target_ratio = 0
        /\ metrics.confidence = "Low"

\* C1 witness: a finished call with a target note on a series whose frames
\* are confident and pitched but all out of the part's range
C1_Witness ==
    /\ Done /\ PassIdx = {} /\ Len(f0) > 0
    /\ target_note # NoTarget
    /\ \A k \in 1..Len(f0) : f0[k] # NaN /\ voiced_probs[k] > 30
    /\ metrics.accuracy = 99900 /\ metrics.confidence = "Low"

\* what the octave-jump pass does with frame i, restated from section 4.1
C2_Rejected == cleaned_f0[i] # NaN /\ last_valid > 0
                 /\ Abs(Cents(cleaned_f0[i], last_valid)) > 70000
C2_StepRule ==
    (pc = "loop" /\ i <= Len(cleaned_f0) /\ i' = i + 1) =>
        /\ (cleaned_f0'[i] # cleaned_f0[i]) <=> C2_Rejected
        /\ C2_Rejected => cleaned_f0'[i] = NaN
        /\ \A k \in 1..Len(cleaned_f0) : k # i => cleaned_f0'[k] = cleaned_f0[k]
        /\ last_valid' = IF cleaned_f0[i] = NaN \/ C2_Rejected THEN last_valid
                         ELSE cleaned_f0[i]
C2_Seed == (pc = "start" /\ pc' = "loop") => (last_valid' = 0 /\ i' = 1)
C2_JumpTrack ==
    (pc = "extracted" /\ y.pyin_f0 \in {F0Of(t) : t \in JumpTracks}) =>
        f0 = [y.pyin_f0 EXCEPT ![51] = NaN]

\* C2: octave-jump suppression scans the frames in time order with
\* last_valid seeded to 0; a non-NaN frame is invalidated exactly when a
\* previous accepted pitch exists and the interval to it exceeds 700 cents
\* in magnitude; otherwise it is accepted and becomes last_valid; a rejected
\* or NaN frame never changes last_valid.  A track of 50 frames at 300 Hz,
\* one at 600 Hz, then 300 Hz again loses exactly the 600 Hz frame.
C2_OctaveJumpSuppression ==
    /\ [][C2_StepRule /\ C2_Seed]_vars
    /\ [](C2_JumpTrack)

\* C2 witness: the 300/600/300 Hz track after extraction, the jump frame
\* invalid and the frames after it retained
C2_Witness ==
    /\ pc = "extracted"
    /\ y.pyin_f0 \in {F0Of(t) : t \in JumpTracks}
    /\ f0[51] = NaN /\ f0[52] = Hz(300) /\ last_valid = Hz(300)

\* C3: for every input (empty or not) the four series extract_features
\* returns have one common length, the minimum of the four raw lengths.
C3_AlignedLengths ==
    [][(pc # "extracted" /\ pc' = "extracted") =>
          \* times is built from the RMS series, so the two share y.n_rms
          LET raw_min == Min2(Min2(Len(y.pyin_f0), Len(y.pyin_probs)),
                              y.n_rms)
          IN  /\ Len(times') = raw_min
              /\ Len(f0') = raw_min
              /\ Len(rms') = raw_min
              /\ Len(voiced_probs') = raw_min]_vars

\* C3 witness: extraction finished on a waveform whose RMS series was the
\* shorter one, and every series was cut to it
C3_Witness ==
    /\ pc = "extracted" /\ ~y.empty
    /\ y.n_rms < Len(y.pyin_f0)
    /\ Len(f0) = y.n_rms /\ Len(voiced_probs) = y.n_rms /\ Len(times) = y.n_rms

\* C4: a frame is valid iff its F0 is not NaN, its confidence is strictly
\* above 0.3 and its F0 lies within range_hz of the voice part, both ends
\* included; the valid frames alone, in time order, feed every metric.
C4_ValidFramesFeedMetrics ==
    Done =>
        /\ metrics.voiced_ratio =
              (IF Len(f0) > 0 THEN (10000 * NPass) \div Len(f0) ELSE 0)
        /\ NPass > 0 =>
              /\ metrics.mean_pitch_hz = Sum(PassSeq) \div NPass
              /\ metrics.stability = Stability(PassSeq, voice_part)
              /\ metrics.drift = Drift(PassSeq)
              /\ target_note # NoTarget =>
                    LET e == MinCentsError(PassSeq, NoteToHz(target_note))
                    IN  /\ metrics.accuracy = Accuracy(e)
                        /\ metrics.on_target_ratio = OnTargetRatio(e)

\* C4 witness: a finished call where a frame exactly at the top of the range
\* is valid and a pitched in-range frame of confidence exactly 0.3 is not
C4_Witness ==
    /\ Done
    /\ \E k \in PassIdx : f0[k] = RangeHz(voice_part)[2]
    /\ \E k \in 1..Len(f0) : f0[k] # NaN /\ voiced_probs[k] = 30 /\ k \notin PassIdx
    /\ metrics.voiced_ratio = 5000

\* C5: voiced_ratio is valid frames over total frames (0.0 without frames);
\* the label is "Low" exactly when voiced_ratio < 0.7 and "High" otherwise,
\* 0.7 itself being "High"; a "Low" label with at least one valid frame does
\* not keep stability, drift or accuracy from being computed.
C5_VoicedRatioAndLabel ==
    Done =>
        /\ metrics.voiced_ratio =
              (IF Len(f0) = 0 THEN 0 ELSE (10000 * NPass) \div Len(f0))
        /\ (metrics.confidence = "Low") <=> (Len(f0) = 0 \/ 10 * NPass < 7 * Len(f0))
        /\ metrics.confidence \in {"Low", "High"}
        /\ (metrics.confidence = "Low" /\ NPass >= 1) =>
              /\ metrics.stability = Stability(PassSeq, voice_part)
              /\ metrics.stability # 99900
              /\ NPass > 40 => (metrics.drift = Drift(PassSeq) /\ metrics.drift # 99900)
              /\ target_note # NoTarget =>
                    (metrics.accuracy = Accuracy(MinCentsError(PassSeq, NoteToHz(target_note)))
                       /\ metrics.accuracy # 99900)

\* C5 witness: a finished call labelled "Low" with more than 40 valid frames
\* and a target, where accuracy, stability and drift were all computed
C5_Witness ==
    /\ Done /\ metrics.confidence = "Low" /\ NPass > 40
    /\ target_note # NoTarget
    /\ metrics.accuracy # 99900 /\ metrics.stability # 99900 /\ metrics.drift # 99900

\* sum over the valid frames of |1200 * log2(f0 / hz)|, without folding
C6_ErrSum(hz) ==
    LET err == [x \in {f0[k] : k \in PassIdx} |-> Abs(Cents(x, hz))]
        e   == [k \in 1..Len(f0) |-> IF k \in PassIdx THEN err[f0[k]] ELSE 0]
    IN  Sum(e)

C7_OctaveUp ==
    /\ Done /\ target_note # NoTarget /\ Len(f0) > 0
    /\ \A k \in 1..Len(f0) :
          f0[k] = 2 * NoteToHz(target_note) /\ voiced_probs[k] > 30

\* C7 as stated: a track at exactly double the target frequency gets
\* accuracy 200.0, for each voice part with its own target note.
C7_OctaveUpIs200 ==
    (C7_OctaveUp /\ voice_part \in Range(PARTS) /\ target_note = TargetMap(voice_part))
        => metrics.accuracy = 20000

\* C7 amended: a track at exactly double the target frequency gets accuracy
\* 200.0 when the doubled frequency lies within range_hz of the voice part
\* and the sentinel 999.0 with confidence "Low" when it lies outside, which
\* is so for each of the five voice parts with its own target note; it is
\* never a near-zero value.
C7_OctaveUpLargeOrSentinel ==
    C7_OctaveUp =>
        /\ metrics.accuracy =
              (IF 2 * NoteToHz(target_note) <= RangeHz(voice_part)[2]
                    /\ 2 * NoteToHz(target_note) >= RangeHz(voice_part)[1]
               THEN 20000 ELSE 99900)
        /\ (voice_part \in Range(PARTS) /\ target_note = TargetMap(voice_part)) =>
              (metrics.accuracy = 99900 /\ metrics.confidence = "Low")

\* C7 witness: the soprano's track one octave above her target F5, finished
C7_Witness ==
    /\ C7_OctaveUp /\ voice_part = "Soprano" /\ target_note = "F5"
    /\ metrics.accuracy = 99900

\* C8: with a target note and at least one valid frame, on_target_ratio is
\* the number of valid frames whose absolute deviation from the target is
\* at most 50 cents over the number of valid frames, within [0, 1], taken
\* from the unclamped per-frame deviations.
C8_OnTargetRatio ==
    (Done /\ target_note # NoTarget /\ NPass >= 1) =>
        LET hz == NoteToHz(target_note)
            on == {k \in PassIdx : Abs(Cents(f0[k], hz)) <= 5000}
        IN  /\ metrics.on_target_ratio = (10000 * Cardinality(on)) \div NPass
            /\ metrics.on_target_ratio >= 0 /\ metrics.on_target_ratio <= 10000

\* C8 witness: a finished call with a target where some valid frames are on
\* target and a flat one is not, the accuracy being clamped
C8_Witness ==
    /\ Done /\ target_note # NoTarget /\ NPass >= 2
    /\ metrics.on_target_ratio > 0 /\ metrics.on_target_ratio < 10000
    /\ \E k \in PassIdx : Cents(f0[k], NoteToHz(target_note)) < 0 - 5000

\* C9: without a target note and with valid frames the call returns:
\* accuracy stays 999.0 and on_target_ratio 0.0, while stability, drift,
\* mean pitch and voiced_ratio are what the call with a target returns.
C9_NoTargetKeepsSentinel ==
    (Done /\ target_note = NoTarget /\ NPass >= 1) =>
        LET with == calculate_metrics(f0, rms, voiced_probs, TargetMap(voice_part), voice_part)
        IN  /\ metrics.accuracy = 99900
            /\ metrics.on_target_ratio = 0
            /\ metrics.stability = with.stability
            /\ metrics.drift = with.drift
            /\ metrics.mean_pitch_hz = with.mean_pitch_hz
            /\ metrics.voiced_ratio = with.voiced_ratio
            /\ metrics.stability # 99900

\* C9 witness: a finished call without target on more than 40 valid frames,
\* stability and drift computed, accuracy still the sentinel
C9_Witness ==
    /\ Done /\ target_note = NoTarget /\ NPass > 40
    /\ metrics.accuracy = 99900 /\ metrics.on_target_ratio = 0
    /\ metrics.stability # 99900 /\ metrics.drift # 99900 /\ metrics.drift # 0

\* the valid frames strictly below the part's first passaggio, in time order
RECURSIVE C10_PreFrom(_)
C10_PreFrom(k) ==
    IF k > Len(f0) THEN <<>>
    ELSE IF Passes(k) /\ f0[k] < PrimaryPassaggio(voice_part)
         THEN <<f0[k]>> \o C10_PreFrom(k + 1)
         ELSE C10_PreFrom(k + 1)

\* C10: stability is the standard deviation in cents around the region's
\* own mean, the region being the valid frames strictly below the first
\* passaggio when there are more than 10 of them, and all valid frames when
\* there are 10 or fewer (exactly 10 takes the fallback).
C10_StabilityRegion ==
    (Done /\ NPass >= 1) =>
        LET pre == C10_PreFrom(1)
        IN  metrics.stability = StdCents(IF Len(pre) > 10 THEN pre ELSE PassSeq)

\* C10 witness: a finished call with exactly 10 pre-passaggio frames, all at
\* one pitch, and further valid frames above, where the whole-clip
\* fallback gives a stability above zero
C10_Witness ==
    /\ Done /\ Len(C10_PreFrom(1)) = 10 /\ NPass > 10
    /\ StdCents(C10_PreFrom(1)) = 0
    /\ metrics.stability > 0

\* s in ascending order (insertion sort)
RECURSIVE C11_Insert(_, _)
C11_Insert(s, x) ==
    IF s = <<>> THEN <<x>>
    ELSE IF x <= Head(s) THEN <<x>> \o s
    ELSE <<Head(s)>> \o C11_Insert(Tail(s), x)
RECURSIVE C11_Sorted(_)
C11_Sorted(s) == IF s = <<>> THEN <<>> ELSE C11_Insert(C11_Sorted(Tail(s)), Head(s))

\* twice the median of 20 values: the two middle ones of the sorted values
C11_TwiceMedian20(s) == C11_Sorted(s)[10] + C11_Sorted(s)[11]

\* C11: with more than 40 valid frames drift is 1200 * log2 of the median
\* of the last 20 valid frames over the median of the first 20; with 40 or
\* fewer valid frames (40 included) drift keeps its default 999.0.
C11_DriftGuardAndMedians ==
    Done =>
        IF NPass > 40
        THEN metrics.drift =
                Cents(C11_TwiceMedian20(SubSeq(PassSeq, NPass - 19, NPass)),
                      C11_TwiceMedian20(SubSeq(PassSeq, 1, 20)))
        ELSE metrics.drift = 99900

\* C11 witness: a finished call on exactly 41 valid frames that start and
\* end at different pitches, the drift computed and negative
C11_Witness ==
    /\ Done /\ NPass = 41
    /\ PassSeq[1] > PassSeq[41]
    /\ metrics.drift < 0

\* the valid frames rise (fall) strictly from each one to the next
C12_Rising == NPass >= 2 /\ \A k \in 1..(NPass - 1) : PassSeq[k] < PassSeq[k + 1]
C12_Falling == NPass >= 2 /\ \A k \in 1..(NPass - 1) : PassSeq[k] > PassSeq[k + 1]

\* C12 as stated: a strictly rising track gets drift > 0 and a strictly
\* falling track drift < 0, whatever the clip length.
C12_DriftSignAnyLength ==
    Done =>
        /\ C12_Rising => metrics.drift > 0
        /\ C12_Falling => metrics.drift < 0

\* C12 amended: with more than 40 valid frames a strictly rising track gets
\* drift > 0 and a strictly falling track drift < 0; with 40 or fewer valid
\* frames drift is the default 999.0 whatever the direction.
C12_DriftSignWhenComputed ==
    Done =>
        /\ (NPass > 40 /\ C12_Rising) => (metrics.drift > 0 /\ metrics.drift # 99900)
        /\ (NPass > 40 /\ C12_Falling) => metrics.drift < 0
        /\ (NPass <= 40 /\ (C12_Rising \/ C12_Falling)) => metrics.drift = 99900

\* C12 witness: a finished call on a falling ramp of more than 40 valid
\* frames, drift negative
C12_Witness ==
    /\ Done /\ NPass > 40 /\ C12_Falling
    /\ metrics.drift < 0

\* every valid frame carries one and the same F0 value
C13_Constant == NPass >= 1 /\ \A k \in PassIdx, j \in PassIdx : f0[k] = f0[j]

\* C13: when all valid frames carry the same F0 value (at least one valid
\* frame), stability is 0, in the pre-passaggio branch and in the whole-clip
\* fallback alike.
C13_ConstantTrackStabilityZero ==
    (Done /\ C13_Constant) => metrics.stability = 0

\* C13 witness: a finished call on more than 10 valid frames of one pitch at
\* or above the first passaggio (whole-clip fallback), with invalid frames
\* among them, stability 0
C13_Witness ==
    /\ Done /\ C13_Constant /\ NPass > 10 /\ NPass < Len(f0)
    /\ \A k \in PassIdx : f0[k] >= PrimaryPassaggio(voice_part)
    /\ metrics.stability = 0

\* a step that is a call of calculate_metrics (the first, one between, the repeated one)
C14_CallStep ==
    /\ pc \in {"extracted", "done", "between"}
    /\ pc' \in {"done", "between", "again"}

C15_LadderOf(st) ==
    CASE st \in {"failed", "deviation", "excellent"} -> 1
      [] st \in {"wobble", "very_stable"} -> 2
      [] st \in {"flat_drift", "sharp_drift"} -> 3
      [] st \in {"off_target", "wander"} -> 4
      [] st = "stable" -> 5

\* the number of ladders generate_diagnosis has been through
C15_Evaluated ==
    CASE pc = "diagnose" -> 0
      [] pc = "stability" -> 1
      [] pc = "drift" -> 2
      [] pc = "on_target" -> 3
      [] pc = "fallback" -> 4
      [] OTHER -> 5

\* C15: generate_diagnosis goes through the ladders in the order accuracy,
\* stability, drift, on-target ratio; at every point the list holds at most
\* one statement of each ladder gone through and none of a later one, in
\* ladder order; the returned list holds between 1 and 4 statements.
C15_LaddersInOrder ==
    entry = "generate_diagnosis" =>
        /\ \A k \in 1..Len(diagnosis) : C15_LadderOf(diagnosis[k]) <= C15_Evaluated
        /\ \A k \in 1..(Len(diagnosis) - 1) :
              C15_LadderOf(diagnosis[k]) < C15_LadderOf(diagnosis[k + 1])
        /\ pc = "diagnosed" => (Len(diagnosis) >= 1 /\ Len(diagnosis) <= 4)

\* C15 witness: a returned diagnosis of four statements, one of each ladder
C15_Witness ==
    /\ pc = "diagnosed"
    /\ diagnosis = <<"deviation", "wobble", "flat_drift", "wander">>

\* no ladder has a statement for the result (thresholds of section 4.4)
C16_AllSilent ==
    /\ result.pitch_accuracy_cents >= 2000 /\ result.pitch_accuracy_cents <= 5000
    /\ \/ result.pitch_stability_cents >= 90000
       \/ result.pitch_stability_cents < 0
       \/ (result.pitch_stability_cents >= 1000 /\ result.pitch_stability_cents <= 3000)
    /\ result.pitch_drift_cents >= 0 - 2000 /\ result.pitch_drift_cents <= 2000
    /\ result.pitch_on_target_ratio >= 8500

\* C16: the returned diagnosis is never empty; it holds the generic
\* "stable" statement exactly when all four ladders were silent, and then
\* nothing else.
C16_NeverEmpty ==
    pc = "diagnosed" =>
        /\ diagnosis # <<>>
        /\ ("stable" \in Range(diagnosis)) <=> C16_AllSilent
        /\ ("stable" \in Range(diagnosis)) => diagnosis = <<"stable">>

\* C16 witness: a returned diagnosis that is the generic statement alone,
\* for a result whose stability is the sentinel
C16_Witness ==
    /\ pc = "diagnosed" /\ diagnosis = <<"stable">>
    /\ result.pitch_stability_cents = 99900

\* what the accuracy, drift and on-target ladders and the "very stable"
\* rung emit, by the threshold table
C17_OtherRungs ==
    LET a == result.pitch_accuracy_cents
        t == result.pitch_stability_cents
        d == result.pitch_drift_cents
        r == result.pitch_on_target_ratio
        has(st) == st \in Range(diagnosis)
    IN  /\ has("failed") <=> a >= 90000
        /\ has("deviation") <=> (a < 90000 /\ a > 5000)
        /\ has("excellent") <=> a < 2000
        /\ has("very_stable") <=> (t >= 0 /\ t < 1000)
        /\ has("flat_drift") <=> d < 0 - 2000
        /\ has("sharp_drift") <=> d > 2000
        /\ has("off_target") <=> r < 6000
        /\ has("wander") <=> (r >= 6000 /\ r < 8500)

\* C17 as stated: the table, with the wobble statement for every stability
\* above 30.
C17_TableWobbleAbove30 ==
    pc = "diagnosed" =>
        /\ C17_OtherRungs
        /\ ("wobble" \in Range(diagnosis)) <=> result.pitch_stability_cents > 3000

\* C17 amended: the table, with the wobble statement for a stability above
\* 30 and below 900; a stability of 900 or more (the sentinel) gives no
\* stability statement.
C17_TableWobbleBelowSentinel ==
    pc = "diagnosed" =>
        /\ C17_OtherRungs
        /\ ("wobble" \in Range(diagnosis)) <=>
              (result.pitch_stability_cents > 3000 /\ result.pitch_stability_cents < 90000)

\* C17 witness: a returned diagnosis for a result at the sentinels: the
\* failure statement, no stability statement, sharp drift, off target
C17_Witness ==
    /\ pc = "diagnosed"
    /\ result.pitch_accuracy_cents = 99900 /\ result.pitch_stability_cents = 99900
    /\ result.pitch_drift_cents = 99900 /\ result.pitch_on_target_ratio = 0
    /\ diagnosis = <<"failed", "sharp_drift", "off_target">>

\* the four series are empty and the metrics are the failure values
C18_EmptySeries == times = <<>> /\ f0 = <<>> /\ rms = <<>> /\ voiced_probs = <<>>
C18_FailureMetrics ==
    /\ metrics.accuracy = 99900 /\ metrics.stability = 99900 /\ metrics.drift = 99900
    /\ metrics.on_target_ratio = 0
    /\ metrics.confidence = "Low"
    /\ metrics.voiced_ratio = 0

\* C18: no exception leaves load_audio, extract_features or
\* calculate_metrics; for a file that does not decode, or decodes to no
\* sample, the waveform is empty, extract_features returns four empty
\* series and calculate_metrics returns the failure sentinels with
\* confidence "Low" and voiced_ratio 0.0.
C18_DecodeFailureAbsorbed ==
    entry = "analyze_audio" =>
        /\ pc \in {"load", "start", "loop", "extracted", "done"} => raised = "none"
        /\ (pc # "load" /\ (~file.decodable \/ file.wave.empty)) =>
              /\ y.empty
              /\ pc \notin {"start", "loop"} => C18_EmptySeries
              /\ pc \notin {"start", "loop", "extracted"} => C18_FailureMetrics

\* C18 witness: the analysis of a file that does not decode, after
\* calculate_metrics returned
C18_Witness ==
    /\ entry = "analyze_audio" /\ ~file.decodable /\ pc = "done"
    /\ y.empty /\ C18_EmptySeries /\ C18_FailureMetrics /\ raised = "none"

\* the frames the generic range [50, 2000] Hz keeps, in time order
RECURSIVE C19_GenericFrom(_)
C19_GenericFrom(k) ==
    IF k > Len(f0) THEN <<>>
    ELSE IF f0[k] # NaN /\ voiced_probs[k] > 30 /\ f0[k] >= 50000 /\ f0[k] <= 2000000
         THEN <<f0[k]>> \o C19_GenericFrom(k + 1)
         ELSE C19_GenericFrom(k + 1)

\* the metrics of a series of valid frames v with first passaggio 300 Hz,
\* by the rules of the known parts
C19_MetricsOf(v, total) ==
    LET pre == Select(v, [k \in 1..Len(v) |-> v[k] < 300000])
        e   == MinCentsError(v, NoteToHz(target_note))
    IN  [accuracy        |-> IF target_note # NoTarget THEN Accuracy(e) ELSE 99900,
         on_target_ratio |-> IF target_note # NoTarget THEN OnTargetRatio(e) ELSE 0,
         stability       |-> StdCents(IF Len(pre) > 10 THEN pre ELSE v),
         drift           |-> Drift(v),
         overshoot       |-> 0,
         mean_pitch_hz   |-> Sum(v) \div Len(v),
         voiced_ratio    |-> (10000 * Len(v)) \div total,
         confidence      |-> IF 10 * Len(v) < 7 * total THEN "Low" ELSE "High"]

\* C19: for a voice part that PASSAGGIO_CRITERIA does not hold the call
\* returns without raising; the valid frames are those within [50, 2000]
\* Hz, the first passaggio is 300.0 Hz, and every metric follows the rules
\* of the known parts.
C19_UnknownPartDefaults ==
    (Done /\ voice_part \notin DOMAIN PASSAGGIO_CRITERIA) =>
        LET v == C19_GenericFrom(1)
        IN  /\ raised = "none"
            /\ PassSeq = v
            /\ v # <<>> => metrics = C19_MetricsOf(v, Len(f0))
            /\ v = <<>> => metrics.confidence = "Low"

\* C19 witness: a finished call for the unknown part on 11 frames at 60 Hz
\* (below the range of every known part) and 2 at 300 Hz: all 13 valid, the
\* 11 below 300 Hz forming the pre-passaggio region
C19_Witness ==
    /\ Done /\ voice_part = UnknownPart
    /\ Len(f0) = 13 /\ NPass = 13 /\ f0[1] = 60000 /\ f0[13] = 300000
    /\ metrics.stability = 0 /\ metrics.confidence = "High"

\* C20 as stated: analyze_audio never ends in an exception; it returns a
\* TestResult holding the accuracy, stability, drift and on-target ratio of
\* the metrics, with exactly one Diagnosis tag.
C20_AlwaysReturnsTaggedResult ==
    entry = "analyze_audio" =>
        /\ raised = "none"
        /\ pc = "returned" =>
              /\ result.pitch_accuracy_cents = metrics.accuracy
              /\ result.pitch_stability_cents = metrics.stability
              /\ result.pitch_drift_cents = metrics.drift
              /\ result.pitch_on_target_ratio = metrics.on_target_ratio
              /\ Len(result.tags) = 1 /\ result.tags[1].tag_type = "Diagnosis"

-----------------------------------------------------------------------------
(* calculate_metrics composed with generate_diagnosis *)

\* the valid frames of the series the metrics were computed from
C24_ValidFrames == Len(VoicedF0(f0, voiced_probs, voice_part))
\* a diagnosis returned for metrics calculate_metrics computed
C24_Composed == entry = "diagnose_metrics" /\ pc = "diagnosed"
C24_Has(st) == st \in Range(diagnosis)

\* C24: whenever the accuracy ladder has reported the hard failure
\* (accuracy >= 900) the stability ladder emits no statement, for every
\* combination of metrics calculate_metrics produces, a run with valid
\* frames and no target note included.
C24_StabilitySilentOnFailure ==
    (C24_Composed /\ C24_Has("failed")) =>
        (~C24_Has("wobble") /\ ~C24_Has("very_stable"))

\* C27 as stated: the failure statement is emitted only for analyses that
\* had no valid frame.
C27_FailedOnlyWithoutValidFrames ==
    (C24_Composed /\ C24_Has("failed")) => C24_ValidFrames = 0

\* C27 amended: the failure statement is emitted exactly for analyses that
\* had no valid frame or were given no target note; with a target note and
\* at least one valid frame the accuracy is at most 200 and the statement
\* is never emitted.
C27_FailedWithoutFramesOrTarget ==
    C24_Composed =>
        /\ C24_Has("failed") <=> (C24_ValidFrames = 0 \/ target_note = NoTarget)
        /\ (C24_ValidFrames > 0 /\ target_note # NoTarget) =>
               result.pitch_accuracy_cents <= Cent(200)

\* C27 witness: a diagnosis with the failure statement for an analysis of
\* valid frames without a target note, whose mean pitch was computed
C27_Witness ==
    /\ C24_Composed
    /\ C24_ValidFrames > 0 /\ target_note = NoTarget
    /\ metrics.mean_pitch_hz > 0
    /\ C24_Has("failed")

\* C28: the drift ladder emits a flat-drift or sharp-drift statement only
\* when drift was computed (more than 40 valid frames); with drift left at
\* its 999.0 default the drift ladder is silent.
C28_DriftSilentAtDefault ==
    (C24_Composed /\ (C24_Has("flat_drift") \/ C24_Has("sharp_drift"))) =>
        C24_ValidFrames > 2 * window

-----------------------------------------------------------------------------
(* the octave-jump pass of extract_features, seen from its output *)

\* the waveform went through extract_features and the pass is over
C25_Extracted == entry # "main" /\ ~y.empty /\ pc \notin {"load", "start", "loop"}
\* the tracker's F0 series the pass started from
C25_Input == Take(y.pyin_f0, Len(f0))
\* the last retained frame before frame k of a series, 0 if there is none
C25_LastRetained(s, k) ==
    IF \E j \in 1..(k - 1) : s[j] # NaN
    THEN CHOOSE j \in 1..(k - 1) : s[j] # NaN /\ \A m \in (j + 1)..(k - 1) : s[m] = NaN
    ELSE 0
C25_Adjacent(s, n) ==
    \A k \in 1..n :
        (s[k] # NaN /\ C25_LastRetained(s, k) > 0) =>
            Abs(Cents(s[k], s[C25_LastRetained(s, k)])) <= 70000

\* C25: in every output of extract_features two retained (non-NaN) frames
\* with no retained frame between them differ by at most 700 cents,
\* whatever NaN or rejected frames lie between them; it holds of the frames
\* already passed at every point of the loop too.
C25_RetainedNeighboursWithin700 ==
    /\ C25_Extracted => C25_Adjacent(f0, Len(f0))
    /\ pc = "loop" => C25_Adjacent(cleaned_f0, i - 1)

\* C25 witness: an output where two retained frames are separated by a
\* rejected frame and an unvoiced one
C25_Witness ==
    /\ C25_Extracted
    /\ C25_Input = <<Hz(300), Hz(600), NaN, Hz(300)>>
    /\ f0 = <<Hz(300), NaN, NaN, Hz(300)>>

\* C26: the pass never re-seeds.  The first non-NaN frame is retained
\* whatever its value; after a retained frame a voiced frame is rejected as
\* long as the input is more than 700 cents from the last retained value,
\* and retained as soon as it is within 700 cents of it: a sustained shift
\* of an octave leaves every following frame invalid.
C26_NeverReseeds ==
    C25_Extracted =>
        /\ Len(f0) = Len(C25_Input)
        /\ \A k \in 1..Len(f0) :
              LET j == C25_LastRetained(f0, k)
                  x == C25_Input[k]
              IN  f0[k] = IF x = NaN THEN NaN
                          ELSE IF j = 0 THEN x
                          ELSE IF Abs(Cents(x, f0[j])) > 70000 THEN NaN
                          ELSE x
        /\ \A a \in {Hz(300), Hz(600)}, b \in {Hz(300), Hz(600)} :
              (a # b /\ C25_Input = <<a, b, b, b>>) => f0 = <<a, NaN, NaN, NaN>>

\* C26 witness: a track that starts an octave high and settles: the first
\* frame is retained and the three frames after it are all rejected
C26_Witness ==
    /\ C25_Extracted
    /\ C25_Input = <<Hz(600), Hz(300), Hz(300), Hz(300)>>
    /\ f0 = <<Hz(600), NaN, NaN, NaN>>

-----------------------------------------------------------------------------
(* two analyses side by side *)

\* the octave-jump pass run by itself on a series, from frame k with
\* reference pitch last, restated from section 4.1
RECURSIVE C21_CleanAlone(_, _, _)
C21_CleanAlone(c, last, k) ==
    IF k > Len(c) THEN c
    ELSE IF c[k] = NaN THEN C21_CleanAlone(c, last, k + 1)
    ELSE IF last > 0 /\ Abs(Cents(c[k], last)) > 70000
         THEN C21_CleanAlone([c EXCEPT ![k] = NaN], last, k + 1)
    ELSE C21_CleanAlone(c, c[k], k + 1)

\* what an analysis returns when nothing runs beside it
C21_Alone(f0in, probs, target, part) ==
    LET out == C21_CleanAlone(f0in, 0, 1)
        m   == calculate_metrics(out, Rep(1, Len(out)), probs, target, part)
    IN  [f0 |-> out, metrics |-> m, diagnosis |-> generate_diagnosis(ResultOf(m))]

\* the locals of the first analysis
C21_Locals == <<y, times, f0, rms, voiced_probs, cleaned_f0, last_valid, i,
                target_note, voice_part, metrics, result, diagnosis, pc>>

\* a step of one analysis writes nothing of the other, and no step writes
\* the table both read
C21_NoSharedWrite ==
    /\ criteria' = criteria
    /\ (peer' # peer) => (C21_Locals' = C21_Locals)
    /\ (C21_Locals' # C21_Locals) => (peer' = peer)

C21_ResultsAsAlone ==
    entry = "pair" =>
        /\ pc = "diagnosed" =>
              [f0 |-> f0, metrics |-> metrics, diagnosis |-> diagnosis]
                 = C21_Alone(y.pyin_f0, y.pyin_probs, target_note, voice_part)
        /\ peer.pc = "diagnosed" =>
              [f0 |-> peer.f0, metrics |-> peer.metrics, diagnosis |-> peer.diagnosis]
                 = C21_Alone(peer.pyin_f0, peer.voiced_probs,
                             peer.target_note, peer.voice_part)

\* C21: analyses share no mutable state: with the steps of two analyses of
\* different recordings interleaved in every order, no step of one writes
\* a variable of the other, and each returns exactly the cleaned series,
\* the metrics and the diagnosis it returns when run alone.
C21_IndependentAnalyses ==
    /\ [][C21_NoSharedWrite]_vars
    /\ [](C21_ResultsAsAlone)

\* C21 witness: both analyses have returned, each with a frame its own
\* pass rejected, on different recordings and with different diagnoses
C21_Witness ==
    /\ entry = "pair" /\ pc = "diagnosed" /\ peer.pc = "diagnosed"
    /\ f0 = <<Hz(600), NaN, Hz(600)>>
    /\ peer.f0 = <<Hz(300), NaN, Hz(300)>>
    /\ diagnosis # peer.diagnosis

\* during the pass: the frames not reached yet are the input, the frames
\* passed are the input value or NaN, and a NaN input is NaN
C23_InputOrNaN ==
    (entry # "main" /\ ~y.empty /\ pc \notin {"load", "start"}) =>
        LET out == IF pc = "loop" THEN cleaned_f0 ELSE f0
            n   == IF pc = "loop" THEN i - 1 ELSE Len(out)
        IN  \A k \in 1..Len(out) :
                /\ out[k] \in {y.pyin_f0[k], NaN}
                /\ k > n => out[k] = y.pyin_f0[k]
\* a frame passed is never changed again, by a later iteration or the return
C23_NeverRevised ==
    (pc = "loop") =>
        /\ \A k \in 1..(i - 1) : cleaned_f0'[k] = cleaned_f0[k]
        /\ pc' = "extracted" => f0' = cleaned_f0
\* two inputs that agree on the first k frames give outputs that agree on
\* the first k frames, at the return and on the frames both passes are past
C23_PrefixDetermined ==
    (entry = "pair" /\ pc \notin {"load", "start"} /\ peer.pc # "start") =>
        LET a  == IF pc = "loop" THEN cleaned_f0 ELSE f0
            na == IF pc = "loop" THEN i - 1 ELSE Len(a)
            b  == IF peer.pc = "loop" THEN peer.cleaned_f0 ELSE peer.f0
            nb == IF peer.pc = "loop" THEN peer.i - 1 ELSE Len(b)
        IN  \A k \in 1..Min2(na, nb) :
                Take(y.pyin_f0, k) = Take(peer.pyin_f0, k) => Take(a, k) = Take(b, k)

\* C23: the octave-jump pass is causal and single-pass: the output on
\* frames 1..k depends on the input frames 1..k only (two inputs that agree
\* there give the same output there), a frame once passed is never changed
\* by a later frame, and every output frame is the unchanged input value or
\* NaN, a NaN input staying NaN.
C23_CausalSinglePass ==
    /\ [](C23_InputOrNaN /\ C23_PrefixDetermined)
    /\ [][C23_NeverRevised]_vars

\* C23 witness: two passes are over whose inputs agree on two frames and
\* differ on the third; the outputs agree on the two frames, one rejected
C23_Witness ==
    /\ entry = "pair" /\ pc = "extracted" /\ peer.pc = "extracted"
    /\ y.pyin_f0 = <<Hz(300), Hz(600), Hz(600)>>
    /\ peer.pyin_f0 = <<Hz(300), Hz(600), Hz(300)>>
    /\ f0 = <<Hz(300), NaN, NaN>>
    /\ peer.f0 = <<Hz(300), NaN, Hz(300)>>

-----------------------------------------------------------------------------
(* the analysis requests of app.py and the test flow of its page *)

\* an analysis request: analyze_audio, or a recording in the audio tab
C22_Request == entry \in {"analyze_audio", "main"}

\* C22: every analysis request goes through decode, extract, filter,
\* compute metrics, diagnose in this order with no step skipped: after
\* load_audio comes extract_features with its octave-jump pass,
\* calculate_metrics is called on the series extract_features returned for
\* that waveform, and generate_diagnosis on the result built from those
\* metrics.
C22_StepsInOrder ==
    [][C22_Request =>
          /\ pc = "load" => pc' \in {"load", "start"}
          /\ pc = "start" => pc' \in {"start", "loop", "extracted"}
          /\ pc = "loop" => pc' \in {"loop", "extracted"}
          /\ pc = "extracted" =>
                \/ pc' = "extracted"
                \/ /\ pc' = "done"
                   /\ f0 = cleaned_f0
                   /\ metrics' = calculate_metrics(f0, rms, voiced_probs,
                                                    target_note, voice_part)
          /\ pc = "done" =>
                \/ pc' = "done"
                \/ pc' = "diagnose" /\ result' = ResultOf(metrics)
          /\ pc' \in {"done", "diagnose", "idle"} => raised' # "TypeError"]_vars

\* the script has run: the page shows something
C29_Rendered == entry = "main" /\ pc # "boot"

\* the index is that of a test and the test of the page is defined
C29_IndexInRange ==
    C29_Rendered =>
        /\ session_state.current_test_index >= 0
        /\ session_state.current_test_index < Len(TESTS)
        /\ page.error # "UnboundLocalError"
        /\ page.test = TESTS[session_state.current_test_index + 1]
\* the completion screen is on the page only once the last test is reached
C29_CompletionAfterLast ==
    (C29_Rendered /\ page.completion) =>
        session_state.current_test_index >= Len(TESTS) - 1
\* a step that replaces the session is a reset: index 0, StudentSession()
\* with the sidebar's passaggio_info for its default part
C29_ResetStep ==
    (entry = "main" /\ pc = "idle"
       /\ session_state'.session.id # session_state.session.id) =>
        /\ session_state'.current_test_index = 0
        /\ session_state'.session =
              [StudentSession(session_state'.session.id)
                 EXCEPT !.passaggio_info = PASSAGGIO_CRITERIA["Soprano"]]

\* C29: from current_test_index = 0, after any sequence of "Next Test" and
\* "Reset Session" the index the audio tab is rendered with satisfies
\* 0 <= current_test_index < len(TESTS), so the test shown is defined;
\* "Reset Session" puts the index back to 0 with a fresh StudentSession;
\* the completion screen is on the page only after the last test.
C29_TestFlowNavigation ==
    /\ [](C29_IndexInRange /\ C29_CompletionAfterLast)
    /\ [][C29_ResetStep]_vars

====
